---- MODULE Spec2Model ----
(***************************************************************************)
(* canvas-gauge: the needle motion simulator (src/src/NeedlePhysics.js)    *)
(* and the gauge that drives it (src/src/Gauge.js): value-to-angle         *)
(* mapping, the per-frame render step and the sweep state machine.         *)
(*                                                                         *)
(* Numbers.  A JavaScript number is a record [k, v]: k = "num" with the    *)
(* value v, k = "nan", or k = "inf" with v the sign.  null is its own      *)
(* record.  Finite reals are held in fixed point:                          *)
(*   angles      1/AngleScale rad      (velocity per s, acceleration per   *)
(*                                      s^2 in the same unit)              *)
(*   durations   1/SecondScale s                                           *)
(*   timestamps  whole milliseconds (requestAnimationFrame's unit)         *)
(* and a product or quotient is rounded to the nearest unit, where the     *)
(* double would be rounded to the nearest double.                          *)
(***************************************************************************)
EXTENDS Integers, Sequences, FiniteSets, TLC

\* ------------------------------------------------------------------------
\* Resolution of the fixed-point representation.
AngleScale == 100 * 1000
SecondScale == 3 * 1000

\* ------------------------------------------------------------------------
\* JavaScript numbers.
Num(n) == [k |-> "num", v |-> n]
NaN == [k |-> "nan", v |-> 0]
Infinity == [k |-> "inf", v |-> 1]
NegInfinity == [k |-> "inf", v |-> -1]
null == [k |-> "null", v |-> 0]

isFinite(x) == x.k = "num"

\* n/d rounded to the nearest integer, d > 0.
RoundDiv(n, d) == IF 2 * (n % d) >= d THEN (n \div d) + 1 ELSE n \div d

Sgn(n) == IF n > 0 THEN 1 ELSE IF n < 0 THEN -1 ELSE 0

\* -x
Neg(x) == IF x.k = "nan" THEN NaN ELSE [k |-> x.k, v |-> -x.v]

\* a + b
Add(a, b) ==
  IF a.k = "nan" \/ b.k = "nan" THEN NaN
  ELSE IF a.k = "inf" /\ b.k = "inf" THEN (IF a.v = b.v THEN a ELSE NaN)
  ELSE IF a.k = "inf" THEN a
  ELSE IF b.k = "inf" THEN b
  ELSE Num(a.v + b.v)

\* a - b
Sub(a, b) == Add(a, Neg(b))

\* c * x for a finite factor c that carries no unit (an integer)
Times(c, x) ==
  IF x.k = "nan" THEN NaN
  ELSE IF x.k = "inf" THEN (IF c = 0 THEN NaN ELSE [k |-> "inf", v |-> Sgn(c) * x.v])
  ELSE Num(c * x.v)

\* c * x for a factor c that carries no unit and may be any number
Mul(c, x) ==
  IF c.k = "nan" \/ x.k = "nan" THEN NaN
  ELSE IF c.k = "inf"
  THEN (IF x.v = 0 THEN NaN ELSE [k |-> "inf", v |-> Sgn(c.v) * Sgn(x.v)])
  ELSE Times(c.v, x)

\* x * dt for a finite duration dt > 0 (in 1/SecondScale s)
TimesDt(x, dt) ==
  IF x.k = "num" THEN Num(RoundDiv(x.v * dt, SecondScale)) ELSE x

\* a < b, a > b, a >= b: false when either side is NaN
Lt(a, b) ==
  IF a.k = "nan" \/ b.k = "nan" THEN FALSE
  ELSE IF a.k = "inf" THEN a.v < 0 /\ ~(b.k = "inf" /\ b.v < 0)
  ELSE IF b.k = "inf" THEN b.v > 0
  ELSE a.v < b.v

Gt(a, b) == Lt(b, a)

Ge(a, b) == a.k # "nan" /\ b.k # "nan" /\ ~Lt(a, b)

\* Math.max, Math.min, Math.abs
MathMax(a, b) ==
  IF a.k = "nan" \/ b.k = "nan" THEN NaN ELSE IF Lt(a, b) THEN b ELSE a

MathMin(a, b) ==
  IF a.k = "nan" \/ b.k = "nan" THEN NaN ELSE IF Lt(b, a) THEN b ELSE a

MathAbs(x) ==
  IF x.k = "nan" THEN NaN
  ELSE IF x.k = "inf" THEN Infinity
  ELSE Num(IF x.v < 0 THEN -x.v ELSE x.v)

\* Math.PI, in angle units
MathPI == RoundDiv(355 * AngleScale, 113)

\* ------------------------------------------------------------------------
\* presets.js
FIXED_TIMESTEP == SecondScale \div 120

MAX_FRAME_TIME == SecondScale \div 10

defaults ==
  [min |-> 0, max |-> 100, majorTicks |-> 5, minorTicks |-> 4,
   startAngle |-> -225, endAngle |-> 45, stiffness |-> Num(120), damping |-> Num(18),
   zones |-> <<>>]

presets ==
  [speed |-> [min |-> 0, max |-> 140, majorTicks |-> 8, minorTicks |-> 4,
              startAngle |-> -225, endAngle |-> 45,
              stiffness |-> Num(120), damping |-> Num(18)],
   rpm |-> [min |-> 0, max |-> 80, majorTicks |-> 9, minorTicks |-> 5,
            startAngle |-> -225, endAngle |-> 45,
            stiffness |-> Num(150), damping |-> Num(16), redlineStart |-> 60],
   volt |-> [min |-> 8, max |-> 16, majorTicks |-> 5, minorTicks |-> 2,
             startAngle |-> -135, endAngle |-> -45,
             stiffness |-> Num(200), damping |-> Num(22)],
   temp |-> [min |-> 100, max |-> 250, majorTicks |-> 4, minorTicks |-> 5,
             startAngle |-> -135, endAngle |-> -45,
             stiffness |-> Num(80), damping |-> Num(20), dangerStart |-> 220],
   oilPressure |-> [min |-> 0, max |-> 80, majorTicks |-> 5, minorTicks |-> 4,
                    startAngle |-> -135, endAngle |-> -45,
                    stiffness |-> Num(100), damping |-> Num(18)],
   oilLevel |-> [min |-> 0, max |-> 1, majorTicks |-> 3, minorTicks |-> 0,
                 startAngle |-> -135, endAngle |-> -45,
                 stiffness |-> Num(60), damping |-> Num(25)]]

\* ------------------------------------------------------------------------
\* NeedlePhysics.js

\* x || d for a config number: a missing key, 0 and NaN are falsy
OrDefault(config, key, d) ==
  IF key \in DOMAIN config /\ config[key] # 0 THEN config[key] ELSE d

\* x || d for a config entry that may be any number: NaN and 0 are falsy,
\* Infinity is not
OrDefaultNumber(config, key, d) ==
  IF key \in DOMAIN config /\ config[key].k # "nan" /\ config[key].v # 0
  THEN config[key] ELSE Num(d)

\* new NeedlePhysics(config); reduced is
\* window.matchMedia('(prefers-reduced-motion: reduce)').matches
NeedlePhysics(config, reduced) ==
  [angle |-> Num(0), velocity |-> Num(0), targetAngle |-> Num(0),
   stiffness |-> OrDefaultNumber(config, "stiffness", 120),
   damping |-> OrDefaultNumber(config, "damping", 18),
   maxVelocity |-> Num(OrDefault(config, "maxVelocity", 20) * AngleScale),
   maxAccel |-> Num(OrDefault(config, "maxAccel", 100) * AngleScale),
   accumulator |-> Num(0), lastTime |-> null,
   vibrationEnabled |-> FALSE,
   vibrationAmount |-> (2 * AngleScale) \div 1000,
   reducedMotion |-> reduced]

\* A mutant of setTarget: the reduced-motion preference is not consulted
setTargetIgnoringPreference(p, angle, immediate) ==
  IF immediate
  THEN [p EXCEPT !.targetAngle = angle, !.angle = angle, !.velocity = Num(0)]
  ELSE [p EXCEPT !.targetAngle = angle]

\* A mutant of setTarget: the snap moves the needle and keeps its velocity
setTargetKeepingVelocity(p, angle, immediate) ==
  IF immediate \/ p.reducedMotion
  THEN [p EXCEPT !.targetAngle = angle, !.angle = angle]
  ELSE [p EXCEPT !.targetAngle = angle]

setTarget(p, angle, immediate) ==
  IF immediate \/ p.reducedMotion
  THEN [p EXCEPT !.targetAngle = angle, !.angle = angle, !.velocity = Num(0)]
  ELSE [p EXCEPT !.targetAngle = angle]

\* A mutant of step: the velocity is integrated and never clamped
stepUnclampedVelocity(p, dt) ==
  LET displacement == Sub(p.targetAngle, p.angle)
      acceleration == Sub(Mul(p.stiffness, displacement),
                          Mul(p.damping, p.velocity))
      clampedAccel == MathMax(Neg(p.maxAccel), MathMin(p.maxAccel, acceleration))
      velocity == Add(p.velocity, TimesDt(clampedAccel, dt))
  IN [p EXCEPT !.velocity = velocity,
               !.angle = Add(p.angle, TimesDt(velocity, dt))]

step(p, dt) ==
  LET displacement == Sub(p.targetAngle, p.angle)
      acceleration == Sub(Mul(p.stiffness, displacement),
                          Mul(p.damping, p.velocity))
      clampedAccel == MathMax(Neg(p.maxAccel), MathMin(p.maxAccel, acceleration))
      velocity == Add(p.velocity, TimesDt(clampedAccel, dt))
      clampedVel == MathMax(Neg(p.maxVelocity), MathMin(p.maxVelocity, velocity))
  IN [p EXCEPT !.velocity = clampedVel,
               !.angle = Add(p.angle, TimesDt(clampedVel, dt))]

\* A mutant of stepLoop: an if where the while stands, one step a call at most
stepOnce(r) ==
  IF Ge(r.p.accumulator, Num(FIXED_TIMESTEP))
  THEN [p |-> [step(r.p, FIXED_TIMESTEP) EXCEPT
                 !.accumulator = Sub(r.p.accumulator, Num(FIXED_TIMESTEP))],
        steps |-> r.steps + 1]
  ELSE r

\* A mutant of stepLoop: what is left in the accumulator after the last step
\* is thrown away
RECURSIVE stepLoopDroppingCarry(_)
stepLoopDroppingCarry(r) ==
  IF Ge(r.p.accumulator, Num(FIXED_TIMESTEP))
  THEN stepLoopDroppingCarry(
         [p |-> [step(r.p, FIXED_TIMESTEP) EXCEPT
                   !.accumulator = Sub(r.p.accumulator, Num(FIXED_TIMESTEP))],
          steps |-> r.steps + 1])
  ELSE [r EXCEPT !.p.accumulator = Num(0)]

\* while (this.accumulator >= FIXED_TIMESTEP) { step; accumulator -= FIXED_TIMESTEP }
\* r = [p, steps]: the state and the number of steps run so far
RECURSIVE stepLoop(_)
stepLoop(r) ==
  IF Ge(r.p.accumulator, Num(FIXED_TIMESTEP))
  THEN stepLoop([p |-> [step(r.p, FIXED_TIMESTEP) EXCEPT
                          !.accumulator = Sub(r.p.accumulator, Num(FIXED_TIMESTEP))],
                 steps |-> r.steps + 1])
  ELSE r

\* A mutant of frameTimeOf: the cap at MAX_FRAME_TIME is left out
frameTimeUncapped(p, currentTime) ==
  LET diff == Sub(currentTime, p.lastTime)
      frameTime == IF diff.k = "num"
                   THEN Num(RoundDiv(diff.v * SecondScale, 1000)) ELSE diff
  IN IF ~isFinite(frameTime) \/ Lt(frameTime, Num(0)) THEN Num(0) ELSE frameTime

\* (currentTime - this.lastTime) / 1000, then the two guards
frameTimeOf(p, currentTime) ==
  LET diff == Sub(currentTime, p.lastTime)
      frameTime == IF diff.k = "num"
                   THEN Num(RoundDiv(diff.v * SecondScale, 1000)) ELSE diff
      guarded == IF ~isFinite(frameTime) \/ Lt(frameTime, Num(0))
                 THEN Num(0) ELSE frameTime
  IN IF Gt(guarded, Num(MAX_FRAME_TIME)) THEN Num(MAX_FRAME_TIME) ELSE guarded

\* (Math.random() - 0.5) * vibrationAmount * (targetAngle / Math.PI),
\* random = Math.random() in tenths
vibration(p, random) ==
  IF p.targetAngle.k = "num"
  THEN Num(RoundDiv((random - 5) * p.vibrationAmount * p.targetAngle.v, 10 * MathPI))
  ELSE IF random = 5 THEN NaN ELSE Times(random - 5, p.targetAngle)

\* update(currentTime): [p |-> the state after the call, out |-> the angle it
\* returns, steps |-> the number of fixed steps it ran]
update(p, currentTime, random) ==
  IF p.lastTime = null
  THEN [p |-> [p EXCEPT !.lastTime = currentTime], out |-> p.angle, steps |-> 0]
  ELSE
    LET frameTime == frameTimeOf(p, currentTime)
        timed == [p EXCEPT !.lastTime = currentTime]
    IN IF p.reducedMotion
       THEN [p |-> [timed EXCEPT !.angle = p.targetAngle, !.velocity = Num(0)],
             out |-> p.targetAngle, steps |-> 0]
       ELSE
         LET r == stepLoop([p |-> [timed EXCEPT
                                     !.accumulator = Add(p.accumulator, frameTime)],
                            steps |-> 0])
             vibrates == r.p.vibrationEnabled
                         /\ Gt(MathAbs(r.p.targetAngle), Num(AngleScale \div 10))
         IN [p |-> r.p,
             out |-> IF vibrates THEN Add(r.p.angle, vibration(r.p, random))
                     ELSE r.p.angle,
             steps |-> r.steps]

\* A mutant of isSettled: the non-finite guard is left out, and the two
\* comparisons decide alone
isSettledUnguarded(p, threshold) ==
  /\ Lt(MathAbs(Sub(p.angle, p.targetAngle)), threshold)
  /\ Lt(MathAbs(p.velocity), threshold)

isSettled(p, threshold) ==
  LET angleDiff == MathAbs(Sub(p.angle, p.targetAngle))
      velMag == MathAbs(p.velocity)
  IN IF ~isFinite(angleDiff) \/ ~isFinite(velMag) THEN TRUE
     ELSE Lt(angleDiff, threshold) /\ Lt(velMag, threshold)

\* isSettled's default threshold, 0.001
DefaultThreshold == Num(AngleScale \div 1000)

\* ------------------------------------------------------------------------
\* Gauge.js: configuration and value-to-angle mapping

\* A mutant of Spread: the keys of the first object win
SpreadKeepingFirst(a, b) ==
  [key \in DOMAIN a \cup DOMAIN b |-> IF key \in DOMAIN a THEN a[key] ELSE b[key]]

\* { ...a, ...b }
Spread(a, b) ==
  [key \in DOMAIN a \cup DOMAIN b |-> IF key \in DOMAIN b THEN b[key] ELSE a[key]]

\* presets[config] for a string config; undefined spreads as {}
Preset(name) ==
  IF name \in DOMAIN presets THEN presets[name] ELSE [key \in {} |-> 0]

\* A config argument: a preset name (typeof config === 'string') or an
\* override object
Str(name) == [typeof |-> "string", value |-> name]
Obj(object) == [typeof |-> "object", value |-> object]

_resolveConfig(config) ==
  IF config.typeof = "string"
  THEN Spread(defaults, Preset(config.value))
  ELSE Spread(defaults, config.value)

\* (degrees - 90) * Math.PI / 180
ToRadians(degrees) == RoundDiv((degrees - 90) * MathPI, 180)

\* A mutant of _valueToAngle: the position is value / range, min forgotten
_valueToAngleFromZero(config, value) ==
  LET v == IF ~isFinite(value) THEN config.min ELSE value.v
      range == config.max - config.min
      num == IF range < 0 THEN -v ELSE v
      den == IF range < 0 THEN -range ELSE range
      clampedNum == IF num < 0 THEN 0 ELSE IF num > den THEN den ELSE num
      startAngle == ToRadians(config.startAngle)
      endAngle == ToRadians(config.endAngle)
  IN IF range = 0 THEN Num(0)
     ELSE Num(startAngle + RoundDiv(clampedNum * (endAngle - startAngle), den))

\* A mutant of _valueToAngle: the position is not clamped to [0, 1]
_valueToAngleUnclamped(config, value) ==
  LET v == IF ~isFinite(value) THEN config.min ELSE value.v
      range == config.max - config.min
      num == IF range < 0 THEN -(v - config.min) ELSE v - config.min
      den == IF range < 0 THEN -range ELSE range
      startAngle == ToRadians(config.startAngle)
      endAngle == ToRadians(config.endAngle)
  IN IF range = 0 THEN Num(0)
     ELSE Num(startAngle + RoundDiv(num * (endAngle - startAngle), den))

_valueToAngle(config, value) ==
  LET v == IF ~isFinite(value) THEN config.min ELSE value.v
      range == config.max - config.min
      \* normalized = (v - min) / range, as num/den with den > 0
      num == IF range < 0 THEN -(v - config.min) ELSE v - config.min
      den == IF range < 0 THEN -range ELSE range
      \* clamped = Math.max(0, Math.min(1, normalized)), as clampedNum/den
      clampedNum == IF num < 0 THEN 0 ELSE IF num > den THEN den ELSE num
      startAngle == ToRadians(config.startAngle)
      endAngle == ToRadians(config.endAngle)
  IN IF range = 0 THEN Num(0)
     ELSE Num(startAngle + RoundDiv(clampedNum * (endAngle - startAngle), den))

\* ------------------------------------------------------------------------
\* GaugeRenderer: the parts of the static artwork that depend on the
\* configuration

\* A config key holding a truthy number: present and not 0
Truthy(config, key) == key \in DOMAIN config /\ config[key] # 0

\* drawZones: the zones filled, in order, each by its start and end value
drawZones(config) ==
  LET zones == IF "zones" \in DOMAIN config THEN config.zones ELSE <<>>
      legacy == Truthy(config, "redlineStart") \/ Truthy(config, "dangerStart")
      start == IF Truthy(config, "redlineStart") THEN config.redlineStart
               ELSE config.dangerStart
      resolved == IF Len(zones) = 0 /\ legacy
                  THEN <<[start |-> start, end |-> config.max]>>
                  ELSE zones
  IN [i \in 1..Len(resolved) |->
        [start |-> resolved[i].start, end |-> resolved[i].end]]

\* GaugeRenderer.valueToAngle: the same mapping without the guards.  A zero
\* range divides by zero: 0/0 is NaN, which the clamp passes on; x/0 is
\* +-Infinity, which the clamp cuts to 0 or 1.
valueToAngle(config, value) ==
  LET range == config.max - config.min
      startAngle == ToRadians(config.startAngle)
      endAngle == ToRadians(config.endAngle)
      flip == IF range < 0 THEN -1 ELSE 1
      num == flip * (value.v - config.min)
      den == flip * range
      clampedNum == IF num < 0 THEN 0 ELSE IF num > den THEN den ELSE num
  IN IF value.k = "nan" THEN NaN
     ELSE IF value.k = "inf"
     THEN IF value.v * flip > 0 THEN Num(endAngle) ELSE Num(startAngle)
     ELSE IF range = 0
     THEN IF num = 0 THEN NaN
          ELSE IF num > 0 THEN Num(endAngle) ELSE Num(startAngle)
     ELSE Num(startAngle + RoundDiv(clampedNum * (endAngle - startAngle), den))

\* new GaugeRenderer(size, dpi, config): the static artwork, pre-rendered.
\* serial tells one renderer object from the next.
GaugeRenderer(size, dpi, config, serial) ==
  [size |-> size, dpi |-> dpi, zones |-> drawZones(config), serial |-> serial]

\* ------------------------------------------------------------------------
\* State.
VARIABLES
  _config,          \* Gauge: the resolved configuration
  _physics,         \* Gauge._physics, the NeedlePhysics instance
  _targetValue,     \* Gauge: the value last passed to setValue
  _isSweeping,      \* Gauge: sweep flag
  _sweepPhase,      \* Gauge: "idle" | "up" | "down"
  _sweepStartTime,  \* Gauge: timestamp (ms) at which the phase started
  _size,            \* Gauge: logical size, null before the first resize
  _renderer,        \* Gauge: the GaugeRenderer (static artwork), or null
  _isConnected,     \* Gauge: false after destroy()
  _animationId,     \* Gauge: TRUE while a frame callback is scheduled
  _dpi,             \* Gauge: the pixel density the canvas was sized for
  devicePixelRatio, \* window.devicePixelRatio
  now,              \* the clock: performance.now() and frame timestamps, ms
  calls,            \* number of API calls made so far (bounded)
  last,             \* the last operation: its name, arguments and results
  pinned            \* [x, t] while only update(t) calls with one timestamp
                    \* have followed setTarget(x, true); null otherwise

vars == <<_config, _physics, _targetValue, _isSweeping, _sweepPhase,
          _sweepStartTime, _size, _renderer, _isConnected, _animationId,
          _dpi, devicePixelRatio, now, calls, last, pinned>>

gaugeVars == <<_config, _targetValue, _isSweeping, _sweepPhase,
               _sweepStartTime, _size, _renderer, _isConnected, _animationId,
               _dpi, devicePixelRatio>>

\* ------------------------------------------------------------------------
\* Bounds.
MaxCalls == 2

\* Renderers a gauge builds in one behaviour, at most
MaxBuilds == 3

\* The record of an operation: op, its arguments (arg, imm), the angle it
\* returned or drew (out), the fixed steps it ran, the events it dispatched.
Op(name, arg, imm, out, steps, events) ==
  [op |-> name, arg |-> arg, imm |-> imm, out |-> out, steps |-> steps,
   events |-> events]

\* ------------------------------------------------------------------------
\* A NeedlePhysics instance driven directly by its caller.

\* Target angles handed to setTarget: 0.05 rad and -1.5 rad
PhysAngles == {Num(AngleScale \div 20), Num(-(3 * AngleScale) \div 2)}

\* Timestamps handed to update, ms: gaps of 0, 100, 1000 and 1100 ms,
\* forwards and backwards
Timestamps == {Num(0), Num(100), Num(1100)}

NonFiniteTimestamps == {NaN, Infinity, NegInfinity}

\* Math.random(), in tenths; it is read only when the needle vibrates
RandomDraws == {0, 9}

Randoms(p) == IF p.vibrationEnabled THEN RandomDraws ELSE {0}

InitPhys ==
  /\ _config = defaults
  /\ \E reduced \in BOOLEAN : _physics = NeedlePhysics(defaults, reduced)
  /\ _targetValue = Num(0)
  /\ _isSweeping = FALSE
  /\ _sweepPhase = "idle"
  /\ _sweepStartTime = Num(0)
  /\ _size = null
  /\ _renderer = null
  /\ _isConnected = FALSE
  /\ _animationId = FALSE
  /\ _dpi = 1
  /\ devicePixelRatio = 1
  /\ now = 0
  /\ calls = 0
  /\ last = Op("new", null, FALSE, null, 0, <<>>)
  /\ pinned = null

PhysSetTarget(angle, immediate) ==
  /\ calls < MaxCalls
  /\ calls' = calls + 1
  /\ _physics' = setTarget(_physics, angle, immediate)
  /\ last' = Op("setTarget", angle, immediate, null, 0, <<>>)
  /\ pinned' = IF immediate THEN [x |-> angle, t |-> null] ELSE null
  /\ UNCHANGED <<gaugeVars, now>>

PhysUpdate(currentTime, random) ==
  LET r == update(_physics, currentTime, random)
  IN /\ _physics' = r.p
     /\ last' = Op("update", currentTime, FALSE, r.out, r.steps, <<>>)
     /\ pinned' = IF pinned # null /\ pinned.t \in {null, currentTime}
                  THEN [pinned EXCEPT !.t = currentTime] ELSE null
     /\ UNCHANGED <<gaugeVars, now, calls>>

PhysSetVibration(enabled) ==
  /\ calls < MaxCalls
  /\ calls' = calls + 1
  /\ _physics' = [_physics EXCEPT !.vibrationEnabled = enabled]
  /\ last' = Op("vibration", null, enabled, null, 0, <<>>)
  /\ UNCHANGED <<gaugeVars, now, pinned>>

NextPhys ==
  \/ \E angle \in PhysAngles, immediate \in BOOLEAN : PhysSetTarget(angle, immediate)
  \/ \E currentTime \in Timestamps, random \in Randoms(_physics) :
       PhysUpdate(currentTime, random)
  \/ \E currentTime \in NonFiniteTimestamps : PhysUpdate(currentTime, 0)
  \/ \E enabled \in BOOLEAN : PhysSetVibration(enabled)

SpecPhys == InitPhys /\ [][NextPhys]_vars

\* The same instance driven one fixed step at a time: step(FIXED_TIMESTEP)
PhysStep ==
  /\ _physics' = step(_physics, FIXED_TIMESTEP)
  /\ last' = Op("step", Num(FIXED_TIMESTEP), FALSE, null, 1, <<>>)
  /\ UNCHANGED <<gaugeVars, now, calls, pinned>>

NextStep ==
  \/ \E angle \in PhysAngles, immediate \in BOOLEAN : PhysSetTarget(angle, immediate)
  \/ PhysStep

SpecStep == InitPhys /\ [][NextStep]_vars

\* The same instance sent across a whole dial and more, one fixed step at a
\* time: to angle(0) of the 'speed' arc, -315 degrees, and a turn the other way
FarAngles == {Num(-(11 * AngleScale) \div 2), Num(6 * AngleScale)}

NextSwing ==
  \/ \E angle \in FarAngles : PhysSetTarget(angle, FALSE)
  \/ PhysStep

SpecSwing == InitPhys /\ [][NextSwing]_vars

\* The same instance asked whether it has settled, near the target and with
\* non-finite targets: 0.0005, 0.005 and 0.05 rad, and NaN
SettleAngles ==
  {Num(AngleScale \div 2000), Num(AngleScale \div 200), Num(AngleScale \div 20), NaN}

\* A boolean a call returns, as a value of the same shape as the numbers
Bool(b) == [k |-> "bool", v |-> IF b THEN 1 ELSE 0]

\* isSettled's argument: the default 0.001, the sweep's 0.01, and 0
Thresholds == {DefaultThreshold, Num(AngleScale \div 100), Num(0)}

PhysIsSettled(threshold) ==
  /\ last' = Op("isSettled", threshold, FALSE,
                Bool(isSettled(_physics, threshold)), 0, <<>>)
  /\ UNCHANGED <<gaugeVars, _physics, now, calls, pinned>>

\* A needle sent after an infinite target never stops, so Infinity is set with
\* immediate only
NextSettle ==
  \/ \E angle \in SettleAngles, immediate \in BOOLEAN : PhysSetTarget(angle, immediate)
  \/ PhysSetTarget(Infinity, TRUE)
  \/ PhysStep
  \/ \E threshold \in Thresholds : PhysIsSettled(threshold)

SpecSettle == InitPhys /\ [][NextSettle]_vars

\* The same instance driven by timestamps that grow by uneven gaps, so that
\* the accumulator carries a remainder from one update to the next
MaxCarryTime == 60

\* Gaps between successive timestamps, ms: none, less than a fixed step,
\* more than one, and far beyond MAX_FRAME_TIME
Gaps == {0, 7, 10, 250}

PhysAdvance(gap) ==
  /\ now < MaxCarryTime
  /\ now' = now + gap
  /\ LET r == update(_physics, Num(now'), 0)
     IN /\ _physics' = r.p
        /\ last' = Op("update", Num(now'), FALSE, r.out, r.steps, <<>>)
  /\ UNCHANGED <<gaugeVars, calls, pinned>>

NextCarry ==
  \/ \E angle \in PhysAngles : PhysSetTarget(angle, FALSE)
  \/ \E gap \in Gaps : PhysAdvance(gap)

SpecCarry == InitPhys /\ [][NextCarry]_vars

\* ------------------------------------------------------------------------
\* Gauge.js: the gauge, its frame loop and its public API

MaxTime == 2400

\* Milliseconds between two frame callbacks
FrameGap == 200

\* Values handed to setValue
Values == {Num(12), NaN, Infinity, NegInfinity}

\* Sizes reported by the ResizeObserver (the smaller side of the rectangle)
Sizes == {0, 200}

\* The state after new Gauge(element, 'volt')
Init ==
  /\ _config = _resolveConfig(Str("volt"))
  /\ \E reduced \in BOOLEAN :
       _physics = setTarget(NeedlePhysics(_config, reduced),
                            _valueToAngle(_config, Num(_config.min)), TRUE)
  /\ _targetValue = Num(_config.min)
  /\ _isSweeping = FALSE
  /\ _sweepPhase = "idle"
  /\ _sweepStartTime = Num(0)
  /\ _size = null
  /\ _renderer = null
  /\ _isConnected = TRUE
  /\ _animationId = TRUE
  /\ _dpi = 1
  /\ devicePixelRatio = 1
  /\ now = 0
  /\ calls = 0
  /\ last = Op("new", null, FALSE, null, 0, <<"gauge:ready">>)
  /\ pinned = null

\* A mutant of actualTarget: the sweep ends on the bottom of the scale
actualTargetMin == _valueToAngle(_config, Num(_config.min))

\* "Return to actual target value": this._valueToAngle(this._targetValue)
actualTarget == _valueToAngle(_config, _targetValue)

\* A mutant of turnDown: the turn at the top of the sweep signals completion
turnDownSignalling(same, timestamp) ==
  [same EXCEPT
     !._sweepPhase = "down",
     !._sweepStartTime = timestamp,
     !._physics = setTarget(_physics,
                    _valueToAngle(_config, Num(_config.min)), FALSE),
     !.events = <<"gauge:sweepcomplete">>]

\* A mutant of turnDown: the phase-start timestamp is left as it was
turnDownKeepingStart(same, timestamp) ==
  [same EXCEPT
     !._sweepPhase = "down",
     !._physics = setTarget(_physics,
                    _valueToAngle(_config, Num(_config.min)), FALSE)]

\* A mutant of turnDown: the turn at the top of the sweep clears the flag
turnDownClearingFlag(same, timestamp) ==
  [same EXCEPT
     !._isSweeping = FALSE,
     !._sweepPhase = "down",
     !._sweepStartTime = timestamp,
     !._physics = setTarget(_physics,
                    _valueToAngle(_config, Num(_config.min)), FALSE)]

\* The 'up' branch of _updateSweep once the duration has elapsed
turnDown(same, timestamp) ==
  [same EXCEPT
     !._sweepPhase = "down",
     !._sweepStartTime = timestamp,
     !._physics = setTarget(_physics,
                    _valueToAngle(_config, Num(_config.min)), FALSE)]

\* A mutant of _updateSweep: the frame that completes the sweep announces the
\* value it returns to
_updateSweepAnnouncing(timestamp) ==
  LET elapsed == Sub(timestamp, _sweepStartTime)
      same == [_isSweeping |-> _isSweeping, _sweepPhase |-> _sweepPhase,
               _sweepStartTime |-> _sweepStartTime, _physics |-> _physics,
               events |-> <<>>]
  IN IF _sweepPhase = "up"
     THEN IF Ge(elapsed, Num(800)) THEN turnDown(same, timestamp) ELSE same
     ELSE IF _sweepPhase = "down" /\ isSettled(_physics, Num(AngleScale \div 100))
     THEN [same EXCEPT
             !._isSweeping = FALSE,
             !._sweepPhase = "idle",
             !._physics = setTarget(_physics, actualTarget, FALSE),
             !.events = <<"gauge:sweepcomplete", "gauge:valuechange">>]
     ELSE same

\* _updateSweep(timestamp): the sweep fields, the simulator and the events
\* dispatched
_updateSweep(timestamp) ==
  LET elapsed == Sub(timestamp, _sweepStartTime)
      sweepDuration == Num(800)
      same == [_isSweeping |-> _isSweeping, _sweepPhase |-> _sweepPhase,
               _sweepStartTime |-> _sweepStartTime, _physics |-> _physics,
               events |-> <<>>]
  IN IF _sweepPhase = "up"
     THEN IF Ge(elapsed, sweepDuration)
          THEN turnDown(same, timestamp)
          ELSE same
     ELSE IF _sweepPhase = "down"
     THEN IF isSettled(_physics, Num(AngleScale \div 100))
          THEN [same EXCEPT
                  !._isSweeping = FALSE,
                  !._sweepPhase = "idle",
                  !._physics = setTarget(_physics, actualTarget, FALSE),
                  !.events = <<"gauge:sweepcomplete">>]
          ELSE same
     ELSE same

\* A mutant of guarded: a non-finite angle is handed on as it is
unguarded(r) == [p |-> r.p, currentAngle |-> r.out]

\* The guard of _render on the angle update returned: r is update's result
guarded(r) ==
  IF ~isFinite(r.out)
  THEN LET currentAngle == _valueToAngle(_config, Num(_config.min))
       IN [p |-> [r.p EXCEPT !.angle = currentAngle, !.velocity = Num(0)],
           currentAngle |-> currentAngle]
  ELSE [p |-> r.p, currentAngle |-> r.out]

\* A mutant of skipsFrame: a frame is rendered whether a renderer exists or not
skipsFrameNever == FALSE

\* The early returns of _render: no renderer yet, or no positive size
skipsFrame == _renderer = null \/ _size = null \/ _size.v <= 0

\* _render(timestamp), after its early returns
_render(timestamp) ==
  LET s == IF _isSweeping THEN _updateSweep(timestamp)
           ELSE [_isSweeping |-> _isSweeping, _sweepPhase |-> _sweepPhase,
                 _sweepStartTime |-> _sweepStartTime, _physics |-> _physics,
                 events |-> <<>>]
      r == update(s._physics, timestamp, 0)
      g == guarded(r)
  IN /\ _isSweeping' = s._isSweeping
     /\ _sweepPhase' = s._sweepPhase
     /\ _sweepStartTime' = s._sweepStartTime
     /\ _physics' = g.p
     /\ last' = Op("frame", timestamp, FALSE, g.currentAngle, r.steps, s.events)

\* The events _render(timestamp) dispatches to the element's listeners
dispatched(timestamp) ==
  IF skipsFrame \/ ~_isSweeping THEN <<>>
  ELSE _updateSweep(timestamp).events

\* The frame callback of _startAnimation.  destroys: a listener of an event
\* dispatched in the frame calls destroy(); the frame then runs on to its
\* end, the requestAnimationFrame of the callback's last line included.
Animate(destroys) ==
  /\ _animationId
  /\ now + FrameGap <= MaxTime
  /\ now' = now + FrameGap
  /\ destroys => _isConnected /\ dispatched(Num(now')) # <<>>
  /\ _isConnected' = (_isConnected /\ ~destroys)
  /\ IF ~_isConnected
     THEN /\ _animationId' = FALSE
          /\ last' = Op("frame", Num(now'), FALSE, null, 0, <<>>)
          /\ UNCHANGED <<_physics, _isSweeping, _sweepPhase, _sweepStartTime>>
     ELSE /\ _animationId' = TRUE
          /\ IF skipsFrame
             THEN /\ last' = Op("frame", Num(now'), FALSE, null, 0, <<>>)
                  /\ UNCHANGED <<_physics, _isSweeping, _sweepPhase, _sweepStartTime>>
             ELSE _render(Num(now'))
  /\ UNCHANGED <<_config, _targetValue, _size, _renderer, _dpi, devicePixelRatio,
                 calls, pinned>>

\* The ResizeObserver callback: _handleResize, then _rebuildRenderer
HandleResize(size) ==
  /\ _isConnected
  /\ IF size > 0 /\ (_size # Num(size) \/ _renderer = null)
     THEN LET serial == IF _renderer = null THEN 1 ELSE _renderer.serial + 1
          IN /\ serial <= MaxBuilds
             /\ _size' = Num(size)
             /\ _dpi' = devicePixelRatio
             /\ _renderer' = GaugeRenderer(size, devicePixelRatio, _config, serial)
             /\ _physics' = [_physics EXCEPT !.stiffness = _config.stiffness,
                                             !.damping = _config.damping]
     ELSE UNCHANGED <<_size, _dpi, _renderer, _physics>>
  /\ last' = Op("resize", Num(size), FALSE, null, 0, <<>>)
  /\ UNCHANGED <<_config, _targetValue, _isSweeping, _sweepPhase, _sweepStartTime,
                 _isConnected, _animationId, devicePixelRatio, now, calls, pinned>>

\* A mutant of retargets: setValue redirects the simulator in every phase
retargetsAlways == TRUE

\* setValue's test before it touches the simulator: !this._isSweeping
\* (this._physics is set by the constructor)
retargets == ~_isSweeping

SetValue(value, immediate) ==
  /\ calls < MaxCalls
  /\ calls' = calls + 1
  /\ _targetValue' = value
  /\ IF retargets
     THEN /\ _physics' = setTarget(_physics, _valueToAngle(_config, value), immediate)
          /\ last' = Op("setValue", value, immediate, null, 0, <<"gauge:valuechange">>)
     ELSE /\ _physics' = _physics
          /\ last' = Op("setValue", value, immediate, null, 0, <<>>)
  /\ UNCHANGED <<_config, _isSweeping, _sweepPhase, _sweepStartTime, _size,
                 _renderer, _isConnected, _animationId, _dpi, devicePixelRatio,
                 now, pinned>>

Sweep ==
  /\ calls < MaxCalls
  /\ calls' = calls + 1
  /\ _isSweeping' = TRUE
  /\ _sweepPhase' = "up"
  /\ _sweepStartTime' = Num(now)
  /\ _physics' = setTarget(_physics, _valueToAngle(_config, Num(_config.max)), FALSE)
  /\ last' = Op("sweep", null, FALSE, null, 0, <<>>)
  /\ UNCHANGED <<_config, _targetValue, _size, _renderer, _isConnected,
                 _animationId, _dpi, devicePixelRatio, now, pinned>>

Destroy ==
  /\ _isConnected
  /\ _isConnected' = FALSE
  /\ _animationId' = FALSE
  /\ last' = Op("destroy", null, FALSE, null, 0, <<>>)
  /\ UNCHANGED <<_config, _physics, _targetValue, _isSweeping, _sweepPhase,
                 _sweepStartTime, _size, _renderer, _dpi, devicePixelRatio,
                 now, calls, pinned>>

Next ==
  \/ \E destroys \in BOOLEAN : Animate(destroys)
  \/ \E size \in Sizes : HandleResize(size)
  \/ \E value \in Values, immediate \in BOOLEAN : SetValue(value, immediate)
  \/ Sweep
  \/ Destroy

Spec == Init /\ [][Next]_vars

\* ------------------------------------------------------------------------
\* Gauges whose configuration carries a spring constant that is no finite
\* number: new Gauge(element, { stiffness: NaN }) and the like

GuardOverrides ==
  {[stiffness |-> NaN], [stiffness |-> Infinity], [damping |-> Infinity]}

\* The state after new Gauge(element, config)
InitGuard ==
  /\ \E config \in GuardOverrides :
       /\ _config = _resolveConfig(Obj(config))
       /\ last = Op("new", Obj(config), FALSE, null, 0, <<"gauge:ready">>)
  /\ \E reduced \in BOOLEAN :
       _physics = setTarget(NeedlePhysics(_config, reduced),
                            _valueToAngle(_config, Num(_config.min)), TRUE)
  /\ _targetValue = Num(_config.min)
  /\ _isSweeping = FALSE
  /\ _sweepPhase = "idle"
  /\ _sweepStartTime = Num(0)
  /\ _size = null
  /\ _renderer = null
  /\ _isConnected = TRUE
  /\ _animationId = TRUE
  /\ _dpi = 1
  /\ devicePixelRatio = 1
  /\ now = 0
  /\ calls = 0
  /\ pinned = null

NextGuard ==
  \/ Animate(FALSE)
  \/ \E size \in Sizes : HandleResize(size)
  \/ \E value \in Values, immediate \in BOOLEAN : SetValue(value, immediate)
  \/ Sweep

SpecGuard == InitGuard /\ [][NextGuard]_vars

\* ------------------------------------------------------------------------
\* A gauge on a page whose layout and pixel density change

\* Sizes reported by the ResizeObserver on such a page
ViewSizes == {0, 200, 300}

\* Values of window.devicePixelRatio
Dpis == {1, 2}

\* The window moves to another display, or the page is zoomed: the gauge
\* listens for neither
DpiChange ==
  /\ \E dpi \in Dpis \ {devicePixelRatio} :
       /\ devicePixelRatio' = dpi
       /\ last' = Op("devicePixelRatio", Num(dpi), FALSE, null, 0, <<>>)
  /\ UNCHANGED <<_config, _physics, _targetValue, _isSweeping, _sweepPhase,
                 _sweepStartTime, _size, _renderer, _isConnected, _animationId,
                 _dpi, now, calls, pinned>>

NextView ==
  \/ Animate(FALSE)
  \/ \E size \in ViewSizes : HandleResize(size)
  \/ DpiChange
  \/ Destroy

SpecView == Init /\ [][NextView]_vars

\* ------------------------------------------------------------------------
\* Gauges built from any configuration: the constructor, setValue, the first
\* layout and the renderer's own mapping

\* Preset names handed to the constructor; 'nosuch' is no preset
PresetNames == {"speed", "rpm", "temp", "nosuch"}

\* <<min, max>>: zero, ordinary and inverted ranges
Ranges == {<<0, 0>>, <<0, 8>>, <<0, 16>>, <<8, 0>>, <<8, 8>>, <<8, 16>>}

\* <<startAngle, endAngle>>, degrees
Arcs == {<<-225, 45>>, <<45, -225>>}

MapOverrides ==
  {[min |-> r[1], max |-> r[2], startAngle |-> a[1], endAngle |-> a[2]] :
     r \in Ranges, a \in Arcs}

\* {}
EmptyObject == [key \in {} |-> 0]

ZoneLists == {<<>>, <<[start |-> 10, end |-> 20], [start |-> 50, end |-> 80]>>}

ZoneOverrides ==
  {Spread(Spread([max |-> 80, zones |-> z], r), d) :
     z \in ZoneLists,
     r \in {EmptyObject, [redlineStart |-> 0], [redlineStart |-> 60]},
     d \in {EmptyObject, [dangerStart |-> 70]}}

ConfigArgs ==
  {Str(name) : name \in PresetNames}
    \cup {Obj(object) : object \in MapOverrides \cup ZoneOverrides}

\* Values handed to setValue and valueToAngle
MapValues == {Num(-4), Num(0), Num(4), Num(8), Num(12), Num(16), Num(20),
              NaN, Infinity, NegInfinity}

\* The state after new Gauge(element, config)
InitConfig ==
  /\ \E config \in ConfigArgs :
       /\ _config = _resolveConfig(config)
       /\ last = Op("new", config, FALSE, null, 0, <<"gauge:ready">>)
  /\ _physics = setTarget(NeedlePhysics(_config, FALSE),
                          _valueToAngle(_config, Num(_config.min)), TRUE)
  /\ _targetValue = Num(_config.min)
  /\ _isSweeping = FALSE
  /\ _sweepPhase = "idle"
  /\ _sweepStartTime = Num(0)
  /\ _size = null
  /\ _renderer = null
  /\ _isConnected = TRUE
  /\ _animationId = TRUE
  /\ _dpi = 1
  /\ devicePixelRatio = 1
  /\ now = 0
  /\ calls = 0
  /\ pinned = null

\* renderer.valueToAngle(value)
RendererValueToAngle(value) ==
  /\ _renderer # null
  /\ last' = Op("valueToAngle", value, FALSE, valueToAngle(_config, value), 0, <<>>)
  /\ UNCHANGED <<gaugeVars, _physics, now, calls, pinned>>

NextConfig ==
  \/ \E value \in MapValues : SetValue(value, TRUE)
  \/ \E size \in Sizes : HandleResize(size)
  \/ \E value \in MapValues : RendererValueToAngle(value)

SpecConfig == InitConfig /\ [][NextConfig]_vars

\* ---------------------------------------------------------------------------
\* GaugeRenderer: the per-frame layers that depend on the needle's angle
\* ---------------------------------------------------------------------------

\* Positions along a gradient, t and each stop's at, are counted in hundredths
GradientUnit == 10 * 10

\* _parseHex(hex), hex = '#rrggbb' given as its six hexadecimal digits
_parseHex(hex) ==
  <<16 * hex[1] + hex[2], 16 * hex[3] + hex[4], 16 * hex[5] + hex[6]>>

\* for (i = 0; i < stops.length - 1; i++) if (t >= stops[i].at && t <=
\* stops[i + 1].at) { lower, upper; break }: the indices of lower and upper,
\* the first and the last stop when no pair takes t
RECURSIVE surrounding(_, _, _)
surrounding(stops, t, i) ==
  IF i > Len(stops) - 1 THEN <<1, Len(stops)>>
  ELSE IF t >= stops[i].at /\ t <= stops[i + 1].at THEN <<i, i + 1>>
  ELSE surrounding(stops, t, i + 1)

\* _interpolateGradient(stops, t): the colour string it returns, by its form
\* (rgba, the stop's own hex string, or rgb) and its channels
_interpolateGradient(stops, t) ==
  IF Len(stops) = 0 THEN [k |-> "rgba", c |-> <<255, 255, 255>>]
  ELSE IF Len(stops) = 1 THEN [k |-> "hex", c |-> stops[1].color]
  ELSE
    LET clamped == IF t < 0 THEN 0 ELSE IF t > GradientUnit THEN GradientUnit ELSE t
        pair == surrounding(stops, clamped, 1)
        lower == stops[pair[1]]
        upper == stops[pair[2]]
        range == upper.at - lower.at
        c1 == _parseHex(lower.color)
        c2 == _parseHex(upper.color)
        channel(j) ==
          IF range > 0
          THEN RoundDiv(c1[j] * range + (c2[j] - c1[j]) * (clamped - lower.at), range)
          ELSE c1[j]
    IN [k |-> "rgb", c |-> <<channel(1), channel(2), channel(3)>>]

\* startAngle + (i / count) * totalAngle, radians; 0 / 0 is NaN
tickAngle(config, i, count) ==
  LET startAngle == ToRadians(config.startAngle)
      totalAngle == ToRadians(config.endAngle) - startAngle
  IN IF count = 0 THEN NaN
     ELSE Num(startAngle + RoundDiv(i * totalAngle, count))

\* The major-tick loop of drawActiveTicks from index i on: the indices stroked
RECURSIVE majorLoop(_, _, _)
majorLoop(config, currentAngle, i) ==
  IF i >= config.majorTicks THEN <<>>
  ELSE IF Gt(tickAngle(config, i, config.majorTicks - 1), currentAngle) THEN <<>>
  ELSE <<i>> \o majorLoop(config, currentAngle, i + 1)

\* The minor-tick loop from index i on: multiples of minorTicks are skipped
RECURSIVE minorLoop(_, _, _)
minorLoop(config, currentAngle, i) ==
  LET totalMinor == (config.majorTicks - 1) * config.minorTicks
  IN IF i > totalMinor THEN <<>>
     ELSE IF i % config.minorTicks = 0 THEN minorLoop(config, currentAngle, i + 1)
     ELSE IF Gt(tickAngle(config, i, totalMinor), currentAngle) THEN <<>>
     ELSE <<i>> \o minorLoop(config, currentAngle, i + 1)

\* drawActiveTicks(ctx, center, radius, currentAngle, config): the major and the
\* minor ticks it strokes in the active colour, in the order it strokes them
drawActiveTicks(config, currentAngle) ==
  IF ~config.activeTicks THEN [major |-> <<>>, minor |-> <<>>]
  ELSE [major |-> majorLoop(config, currentAngle, 0),
        minor |-> IF config.minorTicks > 0
                  THEN minorLoop(config, currentAngle, 0) ELSE <<>>]

\* Colours, as hexadecimal digits: #0066FF, #FF2200, #2255FF, #00CC44, #CCCC00,
\* #000000, #FF0000
Hex0066FF == <<0, 0, 6, 6, 15, 15>>
HexFF2200 == <<15, 15, 2, 2, 0, 0>>
Hex2255FF == <<2, 2, 5, 5, 15, 15>>
Hex00CC44 == <<0, 0, 12, 12, 4, 4>>
HexCCCC00 == <<12, 12, 12, 12, 0, 0>>
Hex000000 == <<0, 0, 0, 0, 0, 0>>
HexFF0000 == <<15, 15, 0, 0, 0, 0>>

Stop(at, color) == [at |-> at, color |-> color]

\* Gradients: none, one stop, the progress arc's fallback, the 'modern'
\* preset's progress arc, and one whose stops leave both ends of [0, 1] bare
StopLists ==
  { <<>>,
    <<Stop(0, Hex0066FF)>>,
    <<Stop(0, Hex0066FF), Stop(GradientUnit, HexFF2200)>>,
    <<Stop(0, Hex2255FF), Stop(15, Hex00CC44), Stop(70, HexCCCC00),
      Stop(GradientUnit, HexFF2200)>>,
    <<Stop(20, Hex000000), Stop(80, HexFF0000)>> }

\* Query positions, hundredths
Queries == {-50, 0, 10, 15, 20, 50, 70, 80, 90, GradientUnit, 150}

\* Tick layouts: the default arc and its reverse, with and without minor
\* ticks, with activeTicks set and not
TickConfigs ==
  {[startAngle |-> a[1], endAngle |-> a[2], majorTicks |-> major,
    minorTicks |-> minor, activeTicks |-> active] :
     a \in Arcs, major \in {1, 5}, minor \in {0, 4}, active \in BOOLEAN}

\* Needle angles: on the first tick, between ticks, on the middle tick, on the
\* last tick and past it
NeedleAngles == {Num(ToRadians(d)) : d \in {-225, -200, -90, -50, 45, 60}}

InitDraw ==
  /\ InitPhys
  /\ ~_physics.reducedMotion

InterpolateGradient(stops, t) ==
  /\ last' = Op("_interpolateGradient", [stops |-> stops, t |-> t], FALSE,
                _interpolateGradient(stops, t), 0, <<>>)
  /\ UNCHANGED <<gaugeVars, _physics, now, calls, pinned>>

DrawActiveTicks(config, currentAngle) ==
  /\ last' = Op("drawActiveTicks", [config |-> config, currentAngle |-> currentAngle],
                FALSE, drawActiveTicks(config, currentAngle), 0, <<>>)
  /\ UNCHANGED <<gaugeVars, _physics, now, calls, pinned>>

NextDraw ==
  \/ \E stops \in StopLists, t \in Queries : InterpolateGradient(stops, t)
  \/ \E config \in TickConfigs, currentAngle \in NeedleAngles :
       DrawActiveTicks(config, currentAngle)

SpecDraw == InitDraw /\ [][NextDraw]_vars

\* ------------------------------------------------------------------------
\* Claims about the gauge (Spec)

Count(seq, e) == Cardinality({i \in DOMAIN seq : seq[i] = e})

\* C1: the sweep phase changes only along idle -> up -> down -> idle: the
\* only phase transitions in any run of sweep(), setValue() and frames are
\* idle->up, up->down and down->idle.  (sweep() called in the down phase
\* takes the phase from down back to up.)
C1_PhaseCycle ==
  [][_sweepPhase' # _sweepPhase =>
       <<_sweepPhase, _sweepPhase'>> \in
         {<<"idle", "up">>, <<"up", "down">>, <<"down", "idle">>}]_vars

C3_SweepEndsOnValue ==
  [][(_sweepPhase = "down" /\ _sweepPhase' = "idle") =>
       /\ _targetValue' = _targetValue
       /\ _physics'.targetAngle = _valueToAngle(_config, _targetValue)]_vars

\* C3's case: a sweep has just finished on a gauge whose value is 12, and
\* the simulator is aimed at the angle of 12, away from the bottom of the
\* scale where the sweep ended.
C3_Witness ==
  /\ last.op = "frame" /\ Count(last.events, "gauge:sweepcomplete") = 1
  /\ _sweepPhase = "idle"
  /\ _targetValue = Num(12)
  /\ _physics.targetAngle = _valueToAngle(_config, Num(12))
  /\ _physics.targetAngle # _valueToAngle(_config, Num(_config.min))
  /\ ~_physics.reducedMotion /\ last.steps > 0

\* C4: gauge:sweepcomplete is dispatched exactly once in the frame that
\* returns the phase to idle, and by no other frame and no other operation.
C4_CompleteOnce ==
  [][IF _sweepPhase # "idle" /\ _sweepPhase' = "idle"
     THEN last'.op = "frame" /\ Count(last'.events, "gauge:sweepcomplete") = 1
     ELSE Count(last'.events, "gauge:sweepcomplete") = 0]_vars

\* C4's case: a sweep that was restarted by a second sweep() has run to its
\* end and the frame that ended it dispatched the signal.
C4_Witness ==
  /\ last.op = "frame" /\ last.events = <<"gauge:sweepcomplete">>
  /\ _sweepPhase = "idle" /\ ~_isSweeping
  /\ calls = 2 /\ _targetValue = Num(_config.min)
  /\ ~_physics.reducedMotion /\ last.steps > 0

\* C10: setValue with a non-finite value never leaves a non-finite number in
\* the gauge: the simulator's target angle and the value read back through
\* the value getter are finite.  (The getter returns the NaN it was given.)
C10_FiniteValue == isFinite(_physics.targetAngle) /\ isFinite(_targetValue)

\* ------------------------------------------------------------------------
\* Claims about configuration and the value-to-angle mapping (SpecConfig)

\* Both mappings send min to the start of the arc and max to its end
EndsOfArc(config) ==
  /\ _valueToAngle(config, Num(config.min)) = Num(ToRadians(config.startAngle))
  /\ _valueToAngle(config, Num(config.max)) = Num(ToRadians(config.endAngle))
  /\ valueToAngle(config, Num(config.min)) = Num(ToRadians(config.startAngle))
  /\ valueToAngle(config, Num(config.max)) = Num(ToRadians(config.endAngle))

Between(x, a, b) == (a <= x /\ x <= b) \/ (b <= x /\ x <= a)

\* angle(v) stays on the arc for every v, and does not decrease as v grows
\* when endAngle > startAngle
OnArcAndMonotone(config) ==
  /\ \A v \in MapValues :
       LET angle == _valueToAngle(config, v)
       IN isFinite(angle)
          /\ Between(angle.v, ToRadians(config.startAngle),
                     ToRadians(config.endAngle))
  /\ config.endAngle > config.startAngle =>
       \A v, w \in {x \in MapValues : isFinite(x)} :
         v.v <= w.v =>
           _valueToAngle(config, v).v <= _valueToAngle(config, w).v

C13_ZeroRange ==
  _config.min = _config.max =>
    \A v, w \in MapValues :
      /\ isFinite(_valueToAngle(_config, v))
      /\ _valueToAngle(_config, v) = _valueToAngle(_config, w)
      /\ isFinite(valueToAngle(_config, v))
      /\ valueToAngle(_config, v) = valueToAngle(_config, w)

\* C14: with max < min the mapping resolves to angle 0 for every input
\* value, as it does with max = min.
C14_InvertedRange ==
  _config.max < _config.min =>
    /\ \A v \in MapValues : _valueToAngle(_config, v) = Num(0)
    /\ last.op = "setValue" => _physics.targetAngle = Num(0)

\* C15: the constructor completes for every config argument.  An unknown
\* preset name resolves to the defaults, key for key; a known preset name or
\* an override object resolves to its own keys, and the defaults for every
\* other key.
C15_ResolvedConfig ==
  last.op = "new" =>
    LET given == IF last.arg.typeof = "object" THEN last.arg.value
                 ELSE IF last.arg.value \in DOMAIN presets
                 THEN presets[last.arg.value]
                 ELSE EmptyObject
    IN /\ _isConnected /\ _animationId
       /\ _physics.targetAngle = _valueToAngle(_config, Num(_config.min))
       /\ DOMAIN _config = DOMAIN defaults \cup DOMAIN given
       /\ \A key \in DOMAIN given : _config[key] = given[key]
       /\ \A key \in DOMAIN defaults \ DOMAIN given : _config[key] = defaults[key]
       /\ given = EmptyObject => _config = defaults

\* C15's case: new Gauge(element, 'nosuch')
C15_Witness ==
  /\ last.op = "new" /\ last.arg = Str("nosuch")
  /\ _config = defaults
  /\ _isConnected /\ _animationId

\* C16: a non-empty zones list is rendered as it is, whatever redlineStart
\* and dangerStart say; an empty list with redlineStart or dangerStart
\* present renders one zone from that threshold to max; an empty list with
\* neither renders no zone.
\* (redlineStart: 0 is present and falsy: no zone is rendered.)
C16_Zones ==
  _renderer # null =>
    LET zones == _config.zones
        thresholds == {_config[key] :
                         key \in {"redlineStart", "dangerStart"} \cap DOMAIN _config}
        drawn == _renderer.zones
    IN IF Len(zones) > 0
       THEN /\ Len(drawn) = Len(zones)
            /\ \A i \in 1..Len(zones) :
                 drawn[i].start = zones[i].start /\ drawn[i].end = zones[i].end
       ELSE IF thresholds # {}
       THEN /\ Len(drawn) = 1
            /\ drawn[1].start \in thresholds
            /\ drawn[1].end = _config.max
       ELSE drawn = <<>>

\* ------------------------------------------------------------------------
\* Claims about the gauge's lifecycle and its sweep (SpecView, Spec)

\* C17: the static artwork is rebuilt whenever the size or the pixel density
\* changes and is otherwise reused: a frame never rebuilds it, a resize
\* notification reporting the current size leaves it in place, and after a
\* resize notification the artwork has the gauge's size and the window's
\* pixel density.
\* (The pixel density is read only when the size changes.)
C17_Artwork ==
  [][/\ last'.op = "frame" => _renderer' = _renderer
     /\ (last'.op = "resize" /\ _renderer # null /\ last'.arg = _size
           /\ _renderer.dpi = devicePixelRatio) =>
          _renderer' = _renderer
     /\ (last'.op = "resize" /\ last'.arg.v > 0) =>
          /\ _renderer' # null
          /\ _renderer'.size = last'.arg.v
          /\ _renderer'.dpi = devicePixelRatio']_vars

\* C18: after destroy() no frame is rendered: a callback that fires on a
\* destroyed gauge leaves the simulator and the sweep state as they are, and
\* a frame that ends on a destroyed gauge has drawn nothing and leaves no
\* callback scheduled.
\* (destroy() called by a listener of gauge:sweepcomplete returns into the
\* frame, which updates the simulator, draws and requests the next frame.)
C18_NoFrameAfterDestroy ==
  [][last'.op = "frame" =>
       /\ ~_isConnected =>
            /\ _physics' = _physics
            /\ <<_isSweeping', _sweepPhase', _sweepStartTime'>>
                 = <<_isSweeping, _sweepPhase, _sweepStartTime>>
       /\ ~_isConnected' => last'.out = null /\ ~_animationId']_vars

\* A frame that got past _render's early returns: it drew the needle
Rendered(op) == op.op = "frame" /\ op.out # null

\* C19: while the phase is up the simulator's target is angle(max); the
\* phase leaves up only in a rendered frame, in the first whose timestamp is
\* at least 800 ms after the sweep's start and in no earlier one, and in that
\* frame the phase becomes down, the target angle(min) and the phase-start
\* timestamp the frame's timestamp.
C19_UpPhase ==
  [][/\ _sweepPhase' = "up" =>
          _physics'.targetAngle = _valueToAngle(_config, Num(_config.max))
     /\ (_sweepPhase = "up" /\ _sweepPhase' # "up") => Rendered(last')
     /\ (_sweepPhase = "up" /\ Rendered(last')) =>
          IF last'.arg.v - _sweepStartTime.v >= 800
          THEN /\ _sweepPhase' = "down"
               /\ _physics'.targetAngle = _valueToAngle(_config, Num(_config.min))
               /\ _sweepStartTime' = last'.arg
          ELSE /\ _sweepPhase' = "up"
               /\ _sweepStartTime' = _sweepStartTime]_vars

\* C19's case: the frame 800 ms after sweep() has turned the needle down
\* while it was still on its way up
C19_Witness ==
  /\ Rendered(last) /\ _sweepPhase = "down"
  /\ _sweepStartTime = last.arg /\ last.arg.v >= 800
  /\ last.steps > 0
  /\ _physics.targetAngle = _valueToAngle(_config, Num(_config.min))
  /\ _physics.angle # _physics.targetAngle

\* C20: the gauge leaves the down phase only in a frame before whose physics
\* update the simulator is settled within 0.01 on the target angle(min);
\* while the simulator is not settled the phase stays down and the target
\* stays angle(min), however much time has passed.
\* (sweep() during the down phase puts the phase back to up.)
C20_DownPhase ==
  [][_sweepPhase = "down" =>
       /\ _physics.targetAngle = _valueToAngle(_config, Num(_config.min))
       /\ IF isSettled(_physics, Num(AngleScale \div 100))
          THEN _sweepPhase' # "down" => Rendered(last')
          ELSE /\ _sweepPhase' = "down"
               /\ _physics'.targetAngle = _physics.targetAngle]_vars

\* ------------------------------------------------------------------------
\* Claims about the simulator (SpecPhys, SpecStep)

\* The simulator after update calls whose timestamps follow lastTime by the
\* given gaps (ms)
RECURSIVE Advance(_, _)
Advance(p, gaps) ==
  IF gaps = <<>> THEN p
  ELSE IF Len(gaps) = 1
  THEN update(p, Add(p.lastTime, Num(gaps[1])), 0).p
  ELSE LET half == Len(gaps) \div 2
       IN \* q is the state after the first half of the calls
          CHOOSE r \in {Advance(q, SubSeq(gaps, half + 1, Len(gaps))) :
                          q \in {Advance(p, SubSeq(gaps, 1, half))}} : TRUE

\* n frames of about 16.7 ms: 17, 17, 16, ... (three of them make 50 ms)
Frames(n) == [i \in 1..n |-> IF i % 3 = 0 THEN 16 ELSE 17]

\* Carry buffers a simulator can hold between two calls
Carries == {0, 7, 24}

WithCarry(p, carry) == [p EXCEPT !.accumulator = Num(carry)]

\* C5: from the same motion state, one update across a 1-second gap leaves
\* the same angle as 60 updates of about 16.7 ms.  (The single call is cut
\* to MAX_FRAME_TIME and runs 12 fixed steps; the 60 calls run 120.)
C5_OneSecond ==
  isFinite(_physics.lastTime) =>
    Advance(_physics, <<1000>>).angle = Advance(_physics, Frames(60)).angle

\* C5, amended: from the same motion state and any carry, one update across
\* a gap of 0.1 s (MAX_FRAME_TIME) leaves the same angle and velocity as 6
\* updates of about 16.7 ms across the same 0.1 s.
C5_WithinCap ==
  isFinite(_physics.lastTime) =>
    \A carry \in Carries :
      LET p == WithCarry(_physics, carry)
          one == Advance(p, <<100>>)
          six == Advance(p, Frames(6))
      IN one.angle = six.angle /\ one.velocity = six.velocity
         /\ one.accumulator = six.accumulator

\* C5's case: a needle on its way to the target, which 0.1 s of updates move
C5_Witness ==
  /\ isFinite(_physics.lastTime)
  /\ last.op = "update" /\ last.steps = 12
  /\ ~_physics.reducedMotion
  /\ _physics.angle # _physics.targetAngle
  /\ Advance(_physics, Frames(6)).angle # _physics.angle

\* C6: with a constant target, once isSettled() is true it stays true after
\* every further fixed step.  (The needle passes through the settled box on
\* its overshoot and leaves it again.)
C6_StaysSettled ==
  [][(last'.op = "step" /\ isSettled(_physics, DefaultThreshold)) =>
       isSettled(_physics', DefaultThreshold)]_vars

\* C7: after setTarget(x, true), every update(t) with one and the same t
\* returns x and leaves the angle at x and the velocity at 0 (vibration off).
C7_Idempotent ==
  (pinned # null /\ last.op = "update" /\ ~_physics.vibrationEnabled) =>
    /\ last.out = pinned.x
    /\ _physics.angle = pinned.x
    /\ _physics.velocity = Num(0)

\* C7's case: the needle was snapped to x while it was moving, and the first
\* update(t) after the snap ran fixed steps
C7_Witness ==
  /\ pinned # null /\ last.op = "update" /\ last.steps > 0
  /\ calls = 2
  /\ ~_physics.reducedMotion /\ ~_physics.vibrationEnabled
  /\ last.out = pinned.x

FiniteState(p) ==
  /\ isFinite(p.angle) /\ isFinite(p.velocity) /\ isFinite(p.targetAngle)
  /\ isFinite(p.accumulator)
  /\ p.lastTime = null \/ isFinite(p.lastTime)

\* C9: an update whose timestamp is non-finite, or earlier than the previous
\* timestamp, runs no fixed step and leaves no non-finite value in the motion
\* state (angle, velocity, target angle, carry buffer, last-update
\* timestamp).  (lastTime takes the timestamp before the guard.)
C9_BadTimestamp ==
  [][(/\ last'.op = "update"
      /\ FiniteState(_physics)
      /\ \/ ~isFinite(last'.arg)
         \/ _physics.lastTime # null /\ Lt(last'.arg, _physics.lastTime)) =>
       last'.steps = 0 /\ FiniteState(_physics')]_vars

\* ---------------------------------------------------------------------------
\* Claims about the accumulator (SpecCarry)
\* ---------------------------------------------------------------------------

\* The time an update call is told has passed, in units of 1/SecondScale s:
\* nothing on the first call, otherwise the gap since the previous timestamp,
\* no less than 0 and no more than MAX_FRAME_TIME
Elapsed ==
  IF _physics.lastTime = null \/ last'.arg.k # "num" \/ _physics.lastTime.k # "num"
  THEN 0
  ELSE LET gap == ((last'.arg.v - _physics.lastTime.v) * SecondScale) \div 1000
       IN IF gap < 0 THEN 0
          ELSE IF gap > MAX_FRAME_TIME THEN MAX_FRAME_TIME ELSE gap

\* What C21 promises of one update call: the accumulator ends in
\* [0, FIXED_TIMESTEP), and the steps run are the whole steps held by the
\* accumulator before the call plus the elapsed time
CarryAccounted ==
  /\ _physics'.accumulator.k = "num"
  /\ _physics'.accumulator.v >= 0
  /\ _physics'.accumulator.v < FIXED_TIMESTEP
  /\ last'.steps = (_physics.accumulator.v + Elapsed) \div FIXED_TIMESTEP
  /\ _physics'.accumulator.v = (_physics.accumulator.v + Elapsed) % FIXED_TIMESTEP

\* C21, as stated: after every update call the accumulator is in
\* [0, FIXED_TIMESTEP) and the call ran exactly the whole fixed steps held by
\* (accumulator before + clamped elapsed time). Violated: with the
\* reduced-motion preference on, update returns before it adds to the
\* accumulator, and the elapsed time is dropped.
C21_EveryCall ==
  [][last'.op = "update" => CarryAccounted]_vars

\* C21, amended: the accounting holds for every update call made while the
\* reduced-motion preference is off; with the preference on, the call runs no
\* step and leaves the accumulator as it was.
C21_CarryAccounted ==
  [][last'.op = "update" =>
       IF _physics.reducedMotion
       THEN last'.steps = 0 /\ _physics'.accumulator = _physics.accumulator
       ELSE CarryAccounted]_vars

\* An update has run more than one step and left a remainder in the accumulator
C21_Witness ==
  /\ last.op = "update"
  /\ ~_physics.reducedMotion
  /\ last.steps > 1
  /\ last.steps < MAX_FRAME_TIME \div FIXED_TIMESTEP
  /\ _physics.accumulator.v > 0

\* C22: one update call adds at most MAX_FRAME_TIME to the accumulator, so it
\* runs at most MAX_FRAME_TIME / FIXED_TIMESTEP = 12 steps; the first update
\* call after construction records its timestamp, runs no step and returns the
\* angle unchanged.
C22_CappedCall ==
  [][last'.op = "update" =>
       /\ _physics'.accumulator.v + last'.steps * FIXED_TIMESTEP
            - _physics.accumulator.v <= MAX_FRAME_TIME
       /\ last'.steps <= MAX_FRAME_TIME \div FIXED_TIMESTEP
       /\ last'.steps <= 12
       /\ _physics.lastTime = null =>
            /\ _physics'.lastTime = last'.arg
            /\ last'.steps = 0
            /\ last'.out = _physics.angle
            /\ _physics' = [_physics EXCEPT !.lastTime = last'.arg]]_vars

\* An update after a gap far beyond the cap has run twelve steps on top of a
\* remainder it found in the accumulator
C22_Witness ==
  /\ last.op = "update"
  /\ last.steps = 12
  /\ _physics.accumulator.v > 0
  /\ _physics.targetAngle # Num(0)


\* ---------------------------------------------------------------------------
\* Claims about the fixed step (SpecSwing)
\* ---------------------------------------------------------------------------

\* C23: in every reachable motion state |velocity| <= maxVelocity; each fixed
\* step takes acceleration = stiffness * (target - angle) - damping * velocity
\* clamped to +-maxAccel, adds acceleration * dt to the velocity, clamps the
\* velocity to +-maxVelocity and moves the angle by the new velocity times dt,
\* so the angle changes by at most maxVelocity * dt a step.
C23_VelocityBound ==
  /\ [](Ge(_physics.maxVelocity, MathAbs(_physics.velocity)))
  /\ [][last'.op = "step" =>
          LET dt == last'.arg.v
              acceleration ==
                Sub(Mul(_physics.stiffness,
                        Sub(_physics.targetAngle, _physics.angle)),
                    Mul(_physics.damping, _physics.velocity))
              clamped ==
                IF Gt(acceleration, _physics.maxAccel) THEN _physics.maxAccel
                ELSE IF Lt(acceleration, Neg(_physics.maxAccel))
                     THEN Neg(_physics.maxAccel) ELSE acceleration
              velocity == Add(_physics.velocity, TimesDt(clamped, dt))
          IN /\ _physics'.velocity =
                  IF Gt(velocity, _physics.maxVelocity) THEN _physics.maxVelocity
                  ELSE IF Lt(velocity, Neg(_physics.maxVelocity))
                       THEN Neg(_physics.maxVelocity) ELSE velocity
             /\ _physics'.angle = Add(_physics.angle, TimesDt(_physics'.velocity, dt))
             /\ Ge(TimesDt(_physics.maxVelocity, dt),
                   MathAbs(Sub(_physics'.angle, _physics.angle)))]_vars

\* A step has held the velocity at the limit: the integration went past it
C23_Witness ==
  /\ last.op = "step"
  /\ MathAbs(_physics.velocity) = _physics.maxVelocity
  /\ Gt(MathAbs(Sub(_physics.targetAngle, _physics.angle)), Num(AngleScale))


\* ---------------------------------------------------------------------------
\* Claims about isSettled (SpecSettle)
\* ---------------------------------------------------------------------------

\* C24: isSettled(threshold) returns true exactly when |angle - target| <
\* threshold and |velocity| < threshold, or when either quantity is non-finite;
\* it returns false in every other state, and it changes nothing of the motion
\* state.
C24_IsSettled ==
  [][last'.op = "isSettled" =>
       /\ _physics' = _physics
       /\ last'.out = Bool(
            IF \/ _physics.angle.k # "num"
               \/ _physics.targetAngle.k # "num"
               \/ _physics.velocity.k # "num"
            THEN TRUE
            ELSE LET angleDiff == _physics.angle.v - _physics.targetAngle.v
                     threshold == last'.arg.v
                 IN /\ angleDiff < threshold
                    /\ -angleDiff < threshold
                    /\ _physics.velocity.v < threshold
                    /\ -_physics.velocity.v < threshold)]_vars

\* isSettled has answered true on a state with a non-finite angle error after
\* answering on a moving needle
C24_Witness ==
  /\ last.op = "isSettled"
  /\ last.out = Bool(TRUE)
  /\ ~isFinite(Sub(_physics.angle, _physics.targetAngle))
  /\ calls = MaxCalls


\* ---------------------------------------------------------------------------
\* Claims about the per-frame layers (SpecDraw)
\* ---------------------------------------------------------------------------

\* Linear interpolation of the three channels between two stops at position t
Interpolated(lower, upper, t) ==
  [j \in 1..3 |->
     LET c1 == _parseHex(lower.color)[j]
         c2 == _parseHex(upper.color)[j]
     IN IF upper.at = lower.at THEN c1
        ELSE RoundDiv(c1 * (upper.at - lower.at) + (c2 - c1) * (t - lower.at),
                      upper.at - lower.at)]

\* C25: for an ordered list of stops and a query t, the result interpolates
\* each channel linearly between the two stops that bracket t, and a query
\* outside the stops' range (below the first at, above the last at, t < 0 or
\* t > 1) returns the colour of the nearest endpoint stop, never an
\* extrapolated colour. Violated: a query inside [0, 1] but outside the stops'
\* range is extrapolated from the first and the last stop.
C25_Gradient ==
  (last.op = "_interpolateGradient" /\ Len(last.arg.stops) >= 2) =>
    LET stops == last.arg.stops
        t == last.arg.t
        first == stops[1]
        final == stops[Len(stops)]
    IN /\ last.out.k = "rgb"
       /\ (t < first.at \/ t < 0) => last.out.c = _parseHex(first.color)
       /\ (t > final.at \/ t > GradientUnit) => last.out.c = _parseHex(final.color)
       /\ (t >= first.at /\ t <= final.at) =>
            \E i \in 1..(Len(stops) - 1) :
              /\ stops[i].at <= t
              /\ t <= stops[i + 1].at
              /\ \A j \in 1..3 :
                   last.out.c[j] = Interpolated(stops[i], stops[i + 1], t)[j]

\* The tick angles of a layout are finite and the needle's angle is, too
Drawable(config, currentAngle) ==
  config.activeTicks /\ config.majorTicks > 1 /\ currentAngle.k = "num"

\* The needle, on its way from startAngle to endAngle, has come to tick i of count
Reached(config, currentAngle, i, count) ==
  IF config.endAngle >= config.startAngle
  THEN ~Gt(tickAngle(config, i, count), currentAngle)
  ELSE ~Lt(tickAngle(config, i, count), currentAngle)

\* C26: ticks are visited in index order from the sweep start, a tick is lit
\* only if its angle is <= the needle's, and the walk stops at the first tick
\* that fails, so the lit ticks are a leading run of the tick sequence; for a
\* sweep in either direction that run is the set of ticks the needle has
\* reached. Violated: with endAngle < startAngle the run is empty once the
\* needle has left the start, and holds every tick while it rests there.
C26_ActiveTicks ==
  (last.op = "drawActiveTicks"
   /\ Drawable(last.arg.config, last.arg.currentAngle)) =>
    LET config == last.arg.config
        currentAngle == last.arg.currentAngle
        major == last.out.major
    IN /\ \A n \in 1..Len(major) : major[n] = n - 1
       /\ \A n \in 1..Len(major) :
            ~Gt(tickAngle(config, major[n], config.majorTicks - 1), currentAngle)
       /\ {major[n] : n \in 1..Len(major)} =
            {i \in 0..(config.majorTicks - 1) :
               Reached(config, currentAngle, i, config.majorTicks - 1)}


\* ---------------------------------------------------------------------------
\* Claims about the gauge's frames (Spec, SpecGuard)
\* ---------------------------------------------------------------------------

\* C27: in every reachable state the sweeping flag and the sweep phase agree:
\* _isSweeping is true exactly when _sweepPhase is 'up' or 'down' and false
\* exactly when it is 'idle', after any sequence of sweep(), setValue(),
\* resizes and frames.
C27_FlagAndPhase ==
  /\ _sweepPhase \in {"idle", "up", "down"}
  /\ _isSweeping <=> _sweepPhase \in {"up", "down"}
  /\ ~_isSweeping <=> _sweepPhase = "idle"

\* A frame has turned the sweep from up to down, and setValue has been called
\* since the sweep began
C27_Witness ==
  /\ Rendered(last)
  /\ _isSweeping /\ _sweepPhase = "down"
  /\ _sweepStartTime = last.arg
  /\ _targetValue # Num(_config.min)
  /\ calls = MaxCalls

\* C28: the angle handed to the needle drawing in any frame is finite: if
\* update returns a non-finite angle the frame replaces it with angle(min),
\* stores that angle in the simulator and zeroes the velocity before anything
\* is drawn, so at the end of every rendered frame the simulator's angle and
\* velocity are finite.
C28_FiniteFrame ==
  /\ [](Rendered(last) =>
          /\ isFinite(last.out)
          /\ isFinite(_physics.angle)
          /\ isFinite(_physics.velocity))
  /\ [][Rendered(last') =>
          LET before == IF _isSweeping THEN _updateSweep(last'.arg)._physics
                        ELSE _physics
              returned == update(before, last'.arg, 0).out
              fallback == _valueToAngle(_config, Num(_config.min))
          IN IF isFinite(returned)
             THEN last'.out = returned
             ELSE /\ last'.out = fallback
                  /\ _physics'.angle = fallback
                  /\ _physics'.velocity = Num(0)]_vars

\* A frame has run fixed steps with a NaN spring constant while the target was
\* away from angle(min), and has put the needle on angle(min)
C28_Witness ==
  /\ Rendered(last)
  /\ last.steps > 0
  /\ _physics.stiffness = NaN
  /\ _physics.targetAngle # _valueToAngle(_config, Num(_config.min))
  /\ last.out = _valueToAngle(_config, Num(_config.min))
  /\ _physics.angle = last.out
  /\ _physics.velocity = Num(0)

\* C29: until a renderer exists, frame callbacks change nothing: they advance
\* neither the simulator (angle, velocity, accumulator, last-update timestamp)
\* nor the sweep (phase, phase-start timestamp), while sweep() and setValue()
\* called in that period still take effect: sweep() starts the up phase and
\* aims the simulator at angle(max), setValue() stores the value and, no
\* sweep being in progress, aims the simulator at the value's angle.
C29_NoRenderer ==
  [][_renderer = null =>
       /\ last'.op = "frame" =>
            UNCHANGED <<_physics, _isSweeping, _sweepPhase, _sweepStartTime,
                        _targetValue>>
       /\ last'.op = "sweep" =>
            /\ _sweepPhase' = "up"
            /\ _physics'.targetAngle = _valueToAngle(_config, Num(_config.max))
       /\ last'.op = "setValue" =>
            /\ _targetValue' = last'.arg
            /\ ~_isSweeping =>
                 _physics'.targetAngle = _valueToAngle(_config, last'.arg)]_vars

\* A frame has come and gone without a renderer, more than 800 ms into a sweep
\* that is still in its up phase
C29_Witness ==
  /\ last.op = "frame"
  /\ _renderer = null
  /\ _sweepPhase = "up"
  /\ last.arg.v - _sweepStartTime.v >= 800
  /\ _physics.lastTime = null
  /\ _physics.targetAngle = _valueToAngle(_config, Num(_config.max))

\* C30: gauge:valuechange is dispatched once for every setValue call made
\* while no sweep is in progress and for no setValue call made during a sweep;
\* no frame dispatches it, the frame that completes the sweep and aims the
\* simulator at the stored value included.
C30_ValueChange ==
  [][/\ last'.op = "setValue" =>
          last'.events = IF _isSweeping THEN <<>> ELSE <<"gauge:valuechange">>
     /\ last'.op # "setValue" =>
          Count(last'.events, "gauge:valuechange") = 0]_vars

\* The frame that completes a sweep has aimed the simulator at a value stored
\* by setValue, and has dispatched gauge:sweepcomplete alone
C30_Witness ==
  /\ last.op = "frame"
  /\ last.events = <<"gauge:sweepcomplete">>
  /\ ~_isSweeping
  /\ _targetValue = Num(12)
  /\ _physics.targetAngle = _valueToAngle(_config, Num(12))
  /\ calls = MaxCalls


====
